---- MODULE Spec2Model ----
(***************************************************************************)
(* State-machine models of the annotated open62541pp example programs.     *)
(* Each example program is a standalone driver, so each has its own        *)
(* variables, its own next-state relation and its own specification.  The  *)
(* wrapped OPC UA stack is the environment: its answers (status codes,     *)
(* responses, scheduling of the event loop) are nondeterministic choices.  *)
(***************************************************************************)
EXTENDS Integers, Naturals, Sequences, FiniteSets, TLC

VARIABLES
    \* ---- server_accesscontrol ----
    acSessionState,   \* session -> "closed" | "created" | "activated"
    acSessionAttr,    \* session -> session attribute {0,"isAdmin"}: [set, value]
    acIdentity,       \* session -> identity of the last successful activation
    acLastActivate,   \* session -> [userName, status] of the last activateSession call
    acNodeValue,      \* value of the variable node {1, 1000}
    acLastWrite,      \* [session, status] of the last write service call
    \* ---- client_subscription ----
    subPc,            \* position of main
    subIsRunning,     \* the global std::atomic<bool> isRunning
    subSession,       \* the client's session and what the server holds for it
    subErrors,        \* number of BadStatus exceptions raised so far
    subRecovery,      \* steps main has taken since the last BadStatus was caught
    subActivations,   \* number of session activations so far
    subCallbackRuns,  \* number of onSessionActivated invocations so far
    subLastSignal,    \* the last signal delivered to the process
    subExit,          \* [disconnected, code]: how main returned
    subUsers,         \* object -> who has used it: "main", "signalHandler"
    \* ---- client_method_async ----
    maPc,             \* position of the main thread
    maThread,         \* position of the client thread running client.run()
    maRunning,        \* the client's running flag, set by run(), cleared by stop()
    maReq,            \* call -> [state, status] of the asynchronous request
    \* ---- client_async ----
    caPc,             \* position of main
    caState,          \* connection state of the client
    caSent,           \* requests issued during the current session
    caReceived,       \* responses received during the current session
    caPending,        \* kinds of the requests awaiting their response
    caActivations,    \* number of session activations so far
    \* ---- client_browse ----
    brStack,          \* call stack of browseNodeRecursively, innermost call last
    brMaxLevel,       \* the maxLevel argument of the running call
    brSpace,          \* the server's address space: node -> forward references
    brBrowsed,        \* [node, level] of every browse request issued
    brPrinted,        \* [node, level] of every call that printed something
    brEarlyReturns,   \* [node, level] of every call that returned at line 40
    brFailures,       \* number of failed browse requests so far
    brFailed,         \* [node, level, how] of every failed browse request
    \* ---- client_browse: main ----
    bmPc,             \* position of main
    bmExit,           \* value main returned, -1 while it runs
    bmDemos,          \* the demonstrations main has completed
    bmConnection,     \* "none", "failed", "connected" or "disconnected"
    \* ---- client_connect ----
    ccArgv,           \* the command line: argv[0] and the arguments
    ccPc,             \* position of main
    ccIdentity,       \* user identity token configured on the client
    ccLog,            \* connect, read and disconnect events, in order
    ccExit,           \* value main returned, -1 while it runs
    \* ---- server_datasource ----
    dsPc,             \* "start" before main has bound the data source, then "running"
    dsData,           \* DataSource<int>::data
    dsWritten,        \* the values clients have written, in order
    dsReply,          \* what the last client request got back
    dsRequests,       \* number of client requests served
    \* ---- server_valuecallback ----
    vcPc,             \* "start" before main has bound the callback, then "running"
    vcClock,          \* the time opcua::DateTime::now() returns
    vcNode,           \* value attribute of the CurrentTime node
    vcReply,          \* what the last client request got back
    vcCalls,          \* number of client reads served and of onRead invocations
    vcRequests,       \* number of client requests served
    \* ---- client_eventfilter ----
    efPc,             \* "start" before the client has subscribed, then "running"
    efFilter,         \* where clause of the monitored item on the server
    efLastEvent,      \* the event the server generated last
    efDelivered,      \* events the callback was invoked with
    efDropped,        \* events the filter held back
    \* ---- typeconversion ----
    tcPc,             \* position of main
    tcSource,         \* the std::byte main assigns to the Variant
    tcVariant,        \* the Variant
    tcValueNative,    \* result of variant.scalar<UA_Byte>()
    tcValue           \* result of variant.to<std::byte>()

acVars == <<acSessionState, acSessionAttr, acIdentity, acLastActivate,
            acNodeValue, acLastWrite>>

subVars == <<subPc, subIsRunning, subSession, subErrors, subRecovery,
             subActivations, subCallbackRuns, subLastSignal, subExit,
             subUsers>>

maVars == <<maPc, maThread, maRunning, maReq>>

caVars == <<caPc, caState, caSent, caReceived, caPending, caActivations>>

brVars == <<brStack, brMaxLevel, brSpace, brBrowsed, brPrinted, brEarlyReturns,
            brFailures, brFailed>>

bmVars == <<bmPc, bmExit, bmDemos, bmConnection>>

ccVars == <<ccArgv, ccPc, ccIdentity, ccLog, ccExit>>

dsVars == <<dsPc, dsData, dsWritten, dsReply, dsRequests>>

vcVars == <<vcPc, vcClock, vcNode, vcReply, vcCalls, vcRequests>>

efVars == <<efPc, efFilter, efLastEvent, efDelivered, efDropped>>

tcVars == <<tcPc, tcSource, tcVariant, tcValueNative, tcValue>>

vars == <<acVars, subVars, maVars, caVars, brVars, bmVars, ccVars, dsVars, vcVars, efVars, tcVars>>

\* What each program leaves alone: the variables of the other programs.
AcOthers == <<subVars, maVars, caVars, brVars, bmVars, ccVars, dsVars, vcVars, efVars, tcVars>>
SubOthers == <<acVars, maVars, caVars, brVars, bmVars, ccVars, dsVars, vcVars, efVars, tcVars>>
MaOthers == <<acVars, subVars, caVars, brVars, bmVars, ccVars, dsVars, vcVars, efVars, tcVars>>
CaOthers == <<acVars, subVars, maVars, brVars, bmVars, ccVars, dsVars, vcVars, efVars, tcVars>>
BrOthers == <<acVars, subVars, maVars, caVars, bmVars, ccVars, dsVars, vcVars, efVars, tcVars>>
\* main of client_browse runs the browse functions, so it changes brVars too.
BmOthers == <<acVars, subVars, maVars, caVars, ccVars, dsVars, vcVars, efVars, tcVars>>
CcOthers == <<acVars, subVars, maVars, caVars, brVars, bmVars, dsVars, vcVars, efVars, tcVars>>
DsOthers == <<acVars, subVars, maVars, caVars, brVars, bmVars, ccVars, vcVars, efVars, tcVars>>
VcOthers == <<acVars, subVars, maVars, caVars, brVars, bmVars, ccVars, dsVars, efVars, tcVars>>
EfOthers == <<acVars, subVars, maVars, caVars, brVars, bmVars, ccVars, dsVars, vcVars, tcVars>>
TcOthers == <<acVars, subVars, maVars, caVars, brVars, bmVars, ccVars, dsVars, vcVars, efVars>>

(***************************************************************************)
(* server_accesscontrol                                                    *)
(***************************************************************************)

\* Number of client sessions the server is observed with.
MaxSessions == 2
\* Largest Int32 value a client writes in the model.
MaxValue == 1

Sessions == 1..MaxSessions

\* Logins passed to the AccessControlCustom constructor.
Logins == { [userName |-> "admin", password |-> "admin"],
            [userName |-> "user",  password |-> "user"] }
allowAnonymous == TRUE

\* User identity tokens a client may present.  "anonymous" stands for every
\* token that does not decode as a UserNameIdentityToken.
AnonymousToken == [kind |-> "anonymous", userName |-> "", password |-> ""]
UserNameTokens == { [kind |-> "userName", userName |-> u, password |-> p] :
                      u \in {"admin", "user", "guest"}, p \in {"admin", "user"} }
Tokens == {AnonymousToken} \cup UserNameTokens

\* AccessControlDefault::activateSession as configured in main: anonymous
\* tokens pass when allowAnonymous, user-name tokens pass when the login
\* matches the configured list.
AccessControlDefault_activateSession(token) ==
    IF token.kind = "anonymous"
    THEN IF allowAnonymous THEN "Good" ELSE "BadIdentityTokenInvalid"
    ELSE IF [userName |-> token.userName, password |-> token.password] \in Logins
         THEN "Good"
         ELSE "BadUserAccessDenied"

\* The bool computed on lines 63-64.
isAdminToken(token) == token.kind = "userName" /\ token.userName = "admin"

TokenName(token) == IF token.kind = "userName" THEN token.userName ELSE "anonymous"

\* AccessControlCustom::getUserAccessLevel
getUserAccessLevel(s) ==
    IF acSessionAttr[s].value
    THEN {"CurrentRead", "CurrentWrite"}
    ELSE {"CurrentRead"}

\* Access level of the variable node as added in main.
NodeAccessLevel == {"CurrentRead", "CurrentWrite"}

\* A client opens a session (CreateSession service): a fresh Session object
\* without attributes.
AcCreateSession(s) ==
    /\ acSessionState[s] = "closed"
    /\ acSessionState' = [acSessionState EXCEPT ![s] = "created"]
    /\ acSessionAttr' = [acSessionAttr EXCEPT ![s] = [set |-> FALSE, value |-> FALSE]]
    /\ acIdentity' = [acIdentity EXCEPT ![s] = "none"]
    /\ acLastActivate' = [acLastActivate EXCEPT ![s] = [userName |-> "none", status |-> "none"]]
    /\ UNCHANGED <<acNodeValue, acLastWrite>>
    /\ UNCHANGED AcOthers

\* AccessControlCustom::activateSession, called by the ActivateSession
\* service on a created or already activated session.  The attribute is
\* stored first, then the base class decides; the service leaves the
\* session as it was when the plugin rejects the activation.
AcActivateSession(s, token) ==
    /\ acSessionState[s] \in {"created", "activated"}
    /\ LET isAdmin == isAdminToken(token)
           status  == AccessControlDefault_activateSession(token)
       IN /\ acSessionAttr' = [acSessionAttr EXCEPT ![s] = [set |-> TRUE, value |-> isAdmin]]
          /\ acLastActivate' = [acLastActivate EXCEPT
                                  ![s] = [userName |-> TokenName(token), status |-> status]]
          /\ IF status = "Good"
             THEN /\ acSessionState' = [acSessionState EXCEPT ![s] = "activated"]
                  /\ acIdentity' = [acIdentity EXCEPT ![s] = TokenName(token)]
             ELSE UNCHANGED <<acSessionState, acIdentity>>
    /\ UNCHANGED <<acNodeValue, acLastWrite>>
    /\ UNCHANGED AcOthers

\* Write service on the variable node by an activated session: the server
\* asks getUserAccessLevel and writes only with CurrentWrite.
AcWrite(s, v) ==
    /\ acSessionState[s] = "activated"
    /\ IF "CurrentWrite" \in (NodeAccessLevel \cap getUserAccessLevel(s))
       THEN /\ acNodeValue' = v
            /\ acLastWrite' = [session |-> s, status |-> "Good"]
       ELSE /\ acNodeValue' = acNodeValue
            /\ acLastWrite' = [session |-> s, status |-> "BadUserAccessDenied"]
    /\ UNCHANGED <<acSessionState, acSessionAttr, acIdentity, acLastActivate>>
    /\ UNCHANGED AcOthers

\* A client closes its session.
AcCloseSession(s) ==
    /\ acSessionState[s] \in {"created", "activated"}
    /\ acSessionState' = [acSessionState EXCEPT ![s] = "closed"]
    /\ UNCHANGED <<acSessionAttr, acIdentity, acLastActivate, acNodeValue, acLastWrite>>
    /\ UNCHANGED AcOthers

AcInit ==
    /\ acSessionState = [s \in Sessions |-> "closed"]
    /\ acSessionAttr = [s \in Sessions |-> [set |-> FALSE, value |-> FALSE]]
    /\ acIdentity = [s \in Sessions |-> "none"]
    /\ acLastActivate = [s \in Sessions |-> [userName |-> "none", status |-> "none"]]
    /\ acNodeValue = 0
    /\ acLastWrite = [session |-> 0, status |-> "none"]

AcNext ==
    \/ \E s \in Sessions : AcCreateSession(s)
    \/ \E s \in Sessions, token \in Tokens : AcActivateSession(s, token)
    \/ \E s \in Sessions, v \in 0..MaxValue : AcWrite(s, v)
    \/ \E s \in Sessions : AcCloseSession(s)

\* C1: getUserAccessLevel grants CurrentRead|CurrentWrite to an activated
\* session exactly when the session was activated with the user name "admin";
\* sessions activated as "user" or anonymously have CurrentRead only.
C1_WriteAccessIffActivatedAsAdmin ==
    \A s \in Sessions :
        acSessionState[s] = "activated" =>
            /\ "CurrentRead" \in getUserAccessLevel(s)
            /\ ("CurrentWrite" \in getUserAccessLevel(s)) <=> (acIdentity[s] = "admin")

\* The case of C1: a session activated as "user" or anonymously has issued a
\* write request.
C1_Witness ==
    \E s \in Sessions :
        /\ acSessionState[s] = "activated"
        /\ acIdentity[s] \in {"user", "anonymous"}
        /\ acLastWrite.session = s

\* C2: a session that is not logged in as "admin" and whose activation as
\* "admin" was rejected by AccessControlDefault::activateSession
\* has no write access afterwards, also when it had been activated as
\* anonymous or as "user" before.
C2_RejectedAdminHasNoWriteAccess ==
    \A s \in Sessions :
        ( /\ acSessionState[s] = "activated"
          /\ acIdentity[s] # "admin"
          /\ acLastActivate[s] = [userName |-> "admin", status |-> "BadUserAccessDenied"] )
        => "CurrentWrite" \notin (NodeAccessLevel \cap getUserAccessLevel(s))

\* The case of C2: an activated session has had an activation as "admin"
\* rejected.
C2_Witness ==
    \E s \in Sessions :
        /\ acSessionState[s] = "activated"
        /\ acIdentity[s] \in {"user", "anonymous"}
        /\ acLastActivate[s] = [userName |-> "admin", status |-> "BadUserAccessDenied"]

(***************************************************************************)
(* client_subscription                                                     *)
(***************************************************************************)
\* Number of BadStatus exceptions the environment raises at most.
MaxErrors == 2
\* Largest subscription / monitored item id the server assigns.
MaxServerId == 2

ServerIds == 1..MaxServerId

\* Signals the process may receive.
Signals == {"SIGINT", "SIGTERM"}
\* Dispositions after line 126: only SIGINT is registered with std::signal.
SignalDisposition(sig) == IF sig = "SIGINT" THEN "signalHandler" ELSE "default"

\* signalHandler: the value of isRunning after the handler ran for sig.
signalHandler(sig, running) ==
    IF sig = "SIGINT" \/ sig = "SIGTERM" THEN FALSE ELSE running

\* The objects with static storage duration the program's code uses: the
\* flag of line 33 and the standard output stream.
SubObjects == {"isRunning", "std::cout"}

\* lines 44-49: the objects the handler uses when it runs for sig: it prints
\* to std::cout and then stores to isRunning.
signalHandler_uses(sig) ==
    IF sig = "SIGINT" \/ sig = "SIGTERM" THEN {"std::cout", "isRunning"} ELSE {}

\* The users of each object after who has used objs.
SubUse(who, objs) ==
    [o \in SubObjects |-> IF o \in objs THEN subUsers[o] \cup {who} ELSE subUsers[o]]

\* A client without a session.
NoSession == [active |-> FALSE, subs |-> {}, items |-> {}]

\* opcua::Subscription sub{client}: the server creates a subscription with
\* the library's default parameters and assigns its id.
CreateSubscription(sess, id) ==
    [sess EXCEPT !.subs = @ \cup
        {[id |-> id, publishingInterval |-> 500, publishingEnabled |-> TRUE]}]

\* sub.setSubscriptionParameters(subscriptionParameters)
setSubscriptionParameters(sess, id, interval) ==
    [sess EXCEPT !.subs = {IF sb.id = id THEN [sb EXCEPT !.publishingInterval = interval]
                                         ELSE sb : sb \in @}]

\* sub.setPublishingMode(true)
setPublishingMode(sess, id, enabled) ==
    [sess EXCEPT !.subs = {IF sb.id = id THEN [sb EXCEPT !.publishingEnabled = enabled]
                                         ELSE sb : sb \in @}]

\* sub.subscribeDataChange(node, AttributeId::Value, callback): a monitored
\* item with the library's default monitoring parameters, in Reporting mode.
subscribeDataChange(sess, id, monId, node) ==
    [sess EXCEPT !.items = @ \cup
        {[subId |-> id, monId |-> monId, node |-> node, attribute |-> "Value",
          samplingInterval |-> 250, mode |-> "Reporting"]}]

\* mon.setMonitoringParameters(monitoringParameters)
setMonitoringParameters(sess, id, monId, interval) ==
    [sess EXCEPT !.items = {IF it.subId = id /\ it.monId = monId
                            THEN [it EXCEPT !.samplingInterval = interval]
                            ELSE it : it \in @}]

\* mon.setMonitoringMode(MonitoringMode::Reporting)
setMonitoringMode(sess, id, monId, mode) ==
    [sess EXCEPT !.items = {IF it.subId = id /\ it.monId = monId
                            THEN [it EXCEPT !.mode = mode]
                            ELSE it : it \in @}]

\* A callback that leaves the subscription and the monitored item at the
\* library's default parameters.
onSessionActivated_Defaults(sess, id, monId) ==
    subscribeDataChange(CreateSubscription(sess, id), id, monId,
                        "Server_ServerStatus_CurrentTime")

\* The onSessionActivated callback registered in main, run on session sess;
\* id and monId are the ids the server assigns.
onSessionActivated(sess, id, monId) ==
    LET s1 == CreateSubscription(sess, id)
        s2 == setSubscriptionParameters(s1, id, 1000)
        s3 == setPublishingMode(s2, id, TRUE)
        s4 == subscribeDataChange(s3, id, monId, "Server_ServerStatus_CurrentTime")
        s5 == setMonitoringParameters(s4, id, monId, 100)
        s6 == setMonitoringMode(s5, id, monId, "Reporting")
    IN s6

\* Whether the environment may raise one more BadStatus.
MayFail == subErrors < MaxErrors

\* while (isRunning), line 133
SubOuterTest ==
    /\ subPc = "outer_test"
    /\ subPc' = IF subIsRunning THEN "connect" ELSE "final_disconnect"
    /\ UNCHANGED <<subIsRunning, subSession, subErrors, subRecovery, subActivations,
                   subCallbackRuns, subLastSignal, subExit>>
    /\ subUsers' = SubUse("main", {"isRunning"})
    /\ UNCHANGED SubOthers

\* client.connect(...), line 137, succeeding: a new session is activated and
\* the library invokes the session-activated callback before connect returns.
SubConnectOk ==
    /\ subPc = "connect"
    /\ \E id \in ServerIds, monId \in ServerIds :
          subSession' = onSessionActivated([NoSession EXCEPT !.active = TRUE], id, monId)
    /\ subActivations' = subActivations + 1
    /\ subCallbackRuns' = subCallbackRuns + 1
    /\ subRecovery' = <<>>
    /\ subPc' = "inner_test"
    /\ UNCHANGED <<subIsRunning, subErrors, subLastSignal, subExit>>
    /\ subUsers' = SubUse("main", {"std::cout"})
    /\ UNCHANGED SubOthers

\* client.connect(...) throwing BadStatus: control enters the catch block.
SubConnectFail ==
    /\ subPc = "connect"
    /\ MayFail
    /\ subErrors' = subErrors + 1
    /\ subRecovery' = <<>>
    /\ subPc' = "catch"
    /\ UNCHANGED <<subIsRunning, subSession, subActivations, subCallbackRuns,
                   subLastSignal, subExit>>
    /\ subUsers' = SubUse("main", {"std::cout"})
    /\ UNCHANGED SubOthers

\* while (isRunning), line 142
SubInnerTest ==
    /\ subPc = "inner_test"
    /\ subPc' = IF subIsRunning THEN "runIterate" ELSE "outer_test"
    /\ UNCHANGED <<subIsRunning, subSession, subErrors, subRecovery, subActivations,
                   subCallbackRuns, subLastSignal, subExit>>
    /\ subUsers' = SubUse("main", {"isRunning"})
    /\ UNCHANGED SubOthers

\* client.runIterate(100) returning normally.
SubRunIterateOk ==
    /\ subPc = "runIterate"
    /\ subPc' = "inner_test"
    /\ UNCHANGED <<subIsRunning, subSession, subErrors, subRecovery, subActivations,
                   subCallbackRuns, subLastSignal, subExit>>
    /\ UNCHANGED subUsers
    /\ UNCHANGED SubOthers

\* client.runIterate(100) throwing BadStatus (the connection broke).
SubRunIterateFail ==
    /\ subPc = "runIterate"
    /\ MayFail
    /\ subErrors' = subErrors + 1
    /\ subRecovery' = <<>>
    /\ subPc' = "catch"
    /\ UNCHANGED <<subIsRunning, subSession, subActivations, subCallbackRuns,
                   subLastSignal, subExit>>
    /\ UNCHANGED subUsers
    /\ UNCHANGED SubOthers

\* A catch block that gives up instead of retrying.
SubCatchDisconnect_GiveUp ==
    /\ subPc = "catch"
    /\ subSession' = NoSession
    /\ subRecovery' = Append(subRecovery, "disconnect")
    /\ subPc' = "final_disconnect"
    /\ UNCHANGED <<subIsRunning, subErrors, subActivations, subCallbackRuns,
                   subLastSignal, subExit>>
    /\ subUsers' = SubUse("main", {"std::cout"})
    /\ UNCHANGED SubOthers

\* catch block, line 154: client.disconnect() drops the session, and with it
\* its subscriptions and monitored items.
SubCatchDisconnect ==
    /\ subPc = "catch"
    /\ subSession' = NoSession
    /\ subRecovery' = Append(subRecovery, "disconnect")
    /\ subPc' = "sleep"
    /\ UNCHANGED <<subIsRunning, subErrors, subActivations, subCallbackRuns,
                   subLastSignal, subExit>>
    /\ subUsers' = SubUse("main", {"std::cout"})
    /\ UNCHANGED SubOthers

\* catch block, line 160: std::this_thread::sleep_for(3 s), then back to the
\* loop condition.
SubSleep ==
    /\ subPc = "sleep"
    /\ subRecovery' = Append(subRecovery, "sleep3s")
    /\ subPc' = "outer_test"
    /\ UNCHANGED <<subIsRunning, subSession, subErrors, subActivations,
                   subCallbackRuns, subLastSignal, subExit>>
    /\ UNCHANGED subUsers
    /\ UNCHANGED SubOthers

\* lines 167-175: client.disconnect() and return 0.
SubFinalDisconnect ==
    /\ subPc = "final_disconnect"
    /\ subSession' = NoSession
    /\ subExit' = [disconnected |-> TRUE, code |-> 0]
    /\ subPc' = "done"
    /\ UNCHANGED <<subIsRunning, subErrors, subRecovery, subActivations,
                   subCallbackRuns, subLastSignal>>
    /\ subUsers' = SubUse("main", {"std::cout"})
    /\ UNCHANGED SubOthers

\* The steps of main.
SubMain ==
    \/ SubOuterTest
    \/ SubConnectOk
    \/ SubConnectFail
    \/ SubInnerTest
    \/ SubRunIterateOk
    \/ SubRunIterateFail
    \/ SubCatchDisconnect
    \/ SubSleep
    \/ SubFinalDisconnect

\* A signal arrives while the process is alive: the registered handler runs,
\* or the default disposition terminates the process on the spot.
SubSignal(sig) ==
    /\ subPc \notin {"done", "killed"}
    /\ subLastSignal' = sig
    /\ IF SignalDisposition(sig) = "signalHandler"
       THEN /\ subIsRunning' = signalHandler(sig, subIsRunning)
            /\ subUsers' = SubUse("signalHandler", signalHandler_uses(sig))
            /\ UNCHANGED subPc
       ELSE /\ subPc' = "killed"
            /\ UNCHANGED <<subIsRunning, subUsers>>
    /\ UNCHANGED <<subSession, subErrors, subRecovery, subActivations,
                   subCallbackRuns, subExit>>
    /\ UNCHANGED SubOthers

SubInit ==
    /\ subPc = "outer_test"
    /\ subIsRunning = TRUE
    /\ subSession = NoSession
    /\ subErrors = 0
    /\ subRecovery = <<>>
    /\ subActivations = 0
    /\ subCallbackRuns = 0
    /\ subLastSignal = "none"
    /\ subExit = [disconnected |-> FALSE, code |-> -1]
    /\ subUsers = [o \in SubObjects |-> {}]

SubNext ==
    \/ SubMain
    \/ \E sig \in Signals : SubSignal(sig)

(***************************************************************************)
(* client_method_async                                                     *)
(***************************************************************************)

\* The two asynchronous Greet calls.
MaCalls == {"future", "callback"}

NoRequest == [state |-> "none", status |-> "none"]

\* Whether an asynchronous call has completed: its future is ready, or its
\* callback has been invoked.
MaCompleted(r) == maReq[r].state = "completed"

MaAlive == maPc \notin {"done", "aborted"}

\* line 66: std::thread([&] { client.run(); })
MaSpawnThread ==
    /\ maPc = "spawn"
    /\ maThread' = "started"
    /\ maPc' = "sleep100"
    /\ UNCHANGED <<maRunning, maReq>>
    /\ UNCHANGED MaOthers

\* line 74: sleep_for(100 ms)
MaSleep100 ==
    /\ maPc = "sleep100"
    /\ maPc' = "call_future"
    /\ UNCHANGED <<maThread, maRunning, maReq>>
    /\ UNCHANGED MaOthers

\* lines 86-90: callMethodAsync(..., useFuture) sends the request.
MaCallFuture ==
    /\ maPc = "call_future"
    /\ maReq' = [maReq EXCEPT !["future"] = [state |-> "sent", status |-> "none"]]
    /\ maPc' = "future_wait"
    /\ UNCHANGED <<maThread, maRunning>>
    /\ UNCHANGED MaOthers

\* line 96: future.wait() returns once the future is ready.
MaFutureWait ==
    /\ maPc = "future_wait"
    /\ MaCompleted("future")
    /\ maPc' = "future_get"
    /\ UNCHANGED <<maThread, maRunning, maReq>>
    /\ UNCHANGED MaOthers

\* lines 101-110: future.get() and result.outputArguments()[0].  A result
\* with a bad status has no output arguments; indexing it is undefined, so
\* the program either carries on or is terminated.
MaFutureGet ==
    /\ maPc = "future_get"
    /\ \/ maPc' = "call_callback"
       \/ /\ maReq["future"].status # "Good"
          /\ maPc' = "aborted"
    /\ UNCHANGED <<maThread, maRunning, maReq>>
    /\ UNCHANGED MaOthers

\* lines 123-135: callMethodAsync(..., callback) sends the request.
MaCallCallback ==
    /\ maPc = "call_callback"
    /\ maReq' = [maReq EXCEPT !["callback"] = [state |-> "sent", status |-> "none"]]
    /\ maPc' = "sleep500"
    /\ UNCHANGED <<maThread, maRunning>>
    /\ UNCHANGED MaOthers

\* line 141: sleep_for(500 ms); it waits for nothing.
MaSleep500 ==
    /\ maPc = "sleep500"
    /\ maPc' = "stop"
    /\ UNCHANGED <<maThread, maRunning, maReq>>
    /\ UNCHANGED MaOthers

\* A shutdown that goes on to join() without stopping the event loop.
MaStop_NoStop ==
    /\ maPc = "stop"
    /\ maPc' = "join"
    /\ UNCHANGED <<maThread, maRunning, maReq>>
    /\ UNCHANGED MaOthers

\* line 156: client.stop() clears the client's running flag.
MaStop ==
    /\ maPc = "stop"
    /\ maRunning' = FALSE
    /\ maPc' = "join"
    /\ UNCHANGED <<maThread, maReq>>
    /\ UNCHANGED MaOthers

\* line 160: clientThread.join() returns once the thread has finished.
MaJoin ==
    /\ maPc = "join"
    /\ maThread = "exited"
    /\ maPc' = "done"
    /\ UNCHANGED <<maThread, maRunning, maReq>>
    /\ UNCHANGED MaOthers

\* The steps of the main thread.
MaMain ==
    \/ MaSpawnThread
    \/ MaSleep100
    \/ MaCallFuture
    \/ MaFutureWait
    \/ MaFutureGet
    \/ MaCallCallback
    \/ MaSleep500
    \/ MaStop
    \/ MaJoin

\* line 68, entering client.run() on the client thread: the running flag is
\* set and the loop begins.
MaThreadEnterRun ==
    /\ MaAlive
    /\ maThread = "started"
    /\ maRunning' = TRUE
    /\ maThread' = "test"
    /\ UNCHANGED <<maPc, maReq>>
    /\ UNCHANGED MaOthers

\* client.run(): the loop condition; run() returns when the flag is clear.
MaLoopTest ==
    /\ MaAlive
    /\ maThread = "test"
    /\ maThread' = IF maRunning THEN "iterate" ELSE "exited"
    /\ UNCHANGED <<maPc, maRunning, maReq>>
    /\ UNCHANGED MaOthers

\* client.run(): one iteration that completes nothing.
MaLoopIdle ==
    /\ MaAlive
    /\ maThread = "iterate"
    /\ maThread' = "test"
    /\ UNCHANGED <<maPc, maRunning, maReq>>
    /\ UNCHANGED MaOthers

\* client.run(): one iteration that completes call r, with the server's
\* response when it has arrived and with a timeout otherwise: the future
\* becomes ready, or the callback is invoked.  The callback indexes
\* outputArguments()[0] as main does, with the same undefined outcome on a
\* bad result.
MaLoopComplete(r) ==
    /\ MaAlive
    /\ maThread = "iterate"
    /\ maReq[r].state \in {"sent", "answered"}
    /\ LET status == IF maReq[r].state = "answered" THEN maReq[r].status
                     ELSE "BadTimeout"
       IN /\ maReq' = [maReq EXCEPT ![r] = [state |-> "completed", status |-> status]]
          /\ \/ UNCHANGED maPc
             \/ /\ r = "callback"
                /\ status # "Good"
                /\ maPc' = "aborted"
    /\ maThread' = "test"
    /\ UNCHANGED maRunning
    /\ UNCHANGED MaOthers

\* The steps of the client thread.
MaClientThread ==
    \/ MaThreadEnterRun
    \/ MaLoopTest
    \/ MaLoopIdle
    \/ \E r \in MaCalls : MaLoopComplete(r)

\* The server answers call r, with a good or a bad call result.
MaServerRespond(r, status) ==
    /\ MaAlive
    /\ maReq[r].state = "sent"
    /\ maReq' = [maReq EXCEPT ![r] = [state |-> "answered", status |-> status]]
    /\ UNCHANGED <<maPc, maThread, maRunning>>
    /\ UNCHANGED MaOthers

MaInit ==
    /\ maPc = "spawn"
    /\ maThread = "not_started"
    /\ maRunning = FALSE
    /\ maReq = [r \in MaCalls |-> NoRequest]

MaNext ==
    \/ MaMain
    \/ MaClientThread
    \/ \E r \in MaCalls, status \in {"Good", "BadMethodInvalid"} : MaServerRespond(r, status)

(***************************************************************************)
(* client_async                                                            *)
(***************************************************************************)

\* Number of session activations observed at most.
MaxActivations == 2

CaSend(kind, subscriptionId, active) ==
    [kind |-> kind, subscriptionId |-> subscriptionId, sessionActive |-> active]

CaRecv(kind, serviceResult, subscriptionId) ==
    [kind |-> kind, serviceResult |-> serviceResult, subscriptionId |-> subscriptionId]

\* The requests the session-activated callback issues: readValueAsync (41),
\* browseAsync (68), createSubscriptionAsync (80).
onSessionActivated_requests == {"read", "browse", "createSubscription"}

\* A response callback that asks for the monitored item on a fixed
\* subscription id instead of the one the response carries.
onCreateSubscriptionResponse_FixedId(serviceResult, subscriptionId, active) ==
    {CaSend("createMonitoredItem", 1, active)}

\* The requests the create-subscription response callback (lines 89-127)
\* issues for a response: createMonitoredItemDataChangeAsync with
\* response.subscriptionId(), whatever the service result is.
onCreateSubscriptionResponse_requests(serviceResult, subscriptionId, active) ==
    {CaSend("createMonitoredItem", subscriptionId, active)}

\* line 144: client.connectAsync(...), then line 149: client.run().
CaConnectAsync ==
    /\ caPc = "connectAsync"
    /\ caState' = "connecting"
    /\ caPc' = "run"
    /\ UNCHANGED <<caSent, caReceived, caPending, caActivations>>
    /\ UNCHANGED CaOthers

\* Event loop: a session is activated and the onSessionActivated callback
\* (lines 35-129) issues its requests.  The records of the previous session
\* are dropped.
CaSessionActivated ==
    /\ caPc = "run"
    /\ caState = "connecting"
    /\ caActivations < MaxActivations
    /\ caState' = "session_active"
    /\ caActivations' = caActivations + 1
    /\ caSent' = {CaSend(k, 0, caState' = "session_active") :
                    k \in onSessionActivated_requests}
    /\ caReceived' = {}
    /\ caPending' = onSessionActivated_requests
    /\ UNCHANGED caPc
    /\ UNCHANGED CaOthers

\* Event loop: the response to the read, the browse or the
\* create-monitored-item request arrives and its callback prints it.
CaOnResponse(kind, serviceResult) ==
    /\ caPc = "run"
    /\ caState = "session_active"
    /\ kind \in caPending
    /\ kind \in {"read", "browse", "createMonitoredItem"}
    /\ caPending' = caPending \ {kind}
    /\ caReceived' = caReceived \cup {CaRecv(kind, serviceResult, 0)}
    /\ UNCHANGED <<caPc, caState, caSent, caActivations>>
    /\ UNCHANGED CaOthers

\* Event loop: the create-subscription response arrives, good with the id the
\* server assigned or bad with id 0, and its callback (lines 89-127) runs.
CaOnCreateSubscriptionResponse(serviceResult, subscriptionId) ==
    /\ caPc = "run"
    /\ caState = "session_active"
    /\ "createSubscription" \in caPending
    /\ IF serviceResult = "Good" THEN subscriptionId \in ServerIds ELSE subscriptionId = 0
    /\ LET sends == onCreateSubscriptionResponse_requests(serviceResult, subscriptionId, TRUE)
       IN /\ caReceived' = caReceived \cup
                             {CaRecv("createSubscription", serviceResult, subscriptionId)}
          /\ caSent' = caSent \cup sends
          /\ caPending' = (caPending \ {"createSubscription"}) \cup {s.kind : s \in sends}
    /\ UNCHANGED <<caPc, caState, caActivations>>
    /\ UNCHANGED CaOthers

\* The connection breaks: the stack completes every pending request with a
\* bad result, running its callback, and the client goes back to connecting.
\* Requests issued by those callbacks cannot be sent any more.
CaSessionLost ==
    /\ caPc = "run"
    /\ caState = "session_active"
    /\ caState' = "connecting"
    /\ caReceived' = caReceived \cup {CaRecv(k, "BadConnectionClosed", 0) : k \in caPending}
    /\ caSent' = IF "createSubscription" \in caPending
                 THEN caSent \cup
                      onCreateSubscriptionResponse_requests("BadConnectionClosed", 0, FALSE)
                 ELSE caSent
    /\ caPending' = {}
    /\ UNCHANGED <<caPc, caActivations>>
    /\ UNCHANGED CaOthers

\* client.run() throws BadStatus because the connection cannot be made: main
\* does not catch it.
CaRunThrows ==
    /\ caPc = "run"
    /\ caState = "connecting"
    /\ caPc' = "aborted"
    /\ caState' = "disconnected"
    /\ UNCHANGED <<caSent, caReceived, caPending, caActivations>>
    /\ UNCHANGED CaOthers

CaInit ==
    /\ caPc = "connectAsync"
    /\ caState = "disconnected"
    /\ caSent = {}
    /\ caReceived = {}
    /\ caPending = {}
    /\ caActivations = 0

CaNext ==
    \/ CaConnectAsync
    \/ CaSessionActivated
    \/ \E k \in caPending, r \in {"Good", "BadNodeIdUnknown"} : CaOnResponse(k, r)
    \/ \E id \in ServerIds : CaOnCreateSubscriptionResponse("Good", id)
    \/ CaOnCreateSubscriptionResponse("BadTooManySubscriptions", 0)
    \/ CaSessionLost
    \/ CaRunThrows

(***************************************************************************)
(* client_browse: browseNodeRecursively                                    *)
(***************************************************************************)

\* Largest level and largest maxLevel the function is called with.
MaxLevel == 3
\* Number of browse requests that fail at most in one run.
MaxBrowseFailures == 1

BrNodes == {"ObjectsFolder", "Server", "Server_ServerStatus", "CurrentTime"}

\* Address spaces the server may expose: forward references of each node, in
\* the order the browse result lists them.  The second one has cycles: a
\* node referencing its parent and a node referencing itself.
BrTreeSpace ==
    [n \in BrNodes |->
        CASE n = "ObjectsFolder"       -> <<"Server">>
          [] n = "Server"              -> <<"Server_ServerStatus">>
          [] n = "Server_ServerStatus" -> <<"CurrentTime">>
          [] OTHER                     -> <<>>]
BrCyclicSpace ==
    [n \in BrNodes |->
        CASE n = "ObjectsFolder"       -> <<"Server", "ObjectsFolder">>
          [] n = "Server"              -> <<"Server_ServerStatus", "ObjectsFolder">>
          [] n = "Server_ServerStatus" -> <<"CurrentTime", "Server">>
          [] OTHER                     -> <<>>]
BrAddressSpaces == {BrTreeSpace, BrCyclicSpace}

\* A call frame of browseNodeRecursively.
BrFrame(node, level) ==
    [node |-> node, level |-> level, pc |-> "entry", refs |-> <<>>, idx |-> 1]

BrTop == brStack[Len(brStack)]
BrPop == SubSeq(brStack, 1, Len(brStack) - 1)
BrSetTop(f) == [brStack EXCEPT ![Len(brStack)] = f]

\* The depth check of a call as an off-by-one slip would have it.
BrDepthReached_OffByOne(level, maxLevel) == level > maxLevel

\* line 39: if (level >= maxLevel)
BrDepthReached(level, maxLevel) == level >= maxLevel

\* lines 39-41: entry of a call; at the maximum depth it returns at once.
BrEntry ==
    /\ brStack # <<>>
    /\ BrTop.pc = "entry"
    /\ IF BrDepthReached(BrTop.level, brMaxLevel)
       THEN /\ brStack' = BrPop
            /\ brEarlyReturns' = brEarlyReturns \cup {[node |-> BrTop.node, level |-> BrTop.level]}
       ELSE /\ brStack' = BrSetTop([BrTop EXCEPT !.pc = "browse"])
            /\ UNCHANGED brEarlyReturns
    /\ UNCHANGED <<brMaxLevel, brSpace, brBrowsed, brPrinted, brFailures, brFailed>>
    /\ UNCHANGED BrOthers

\* lines 60-67: services::browse succeeds; the number of references is
\* printed and the loop over them begins.
BrBrowseOk ==
    /\ brStack # <<>>
    /\ BrTop.pc = "browse"
    /\ brBrowsed' = brBrowsed \cup {[node |-> BrTop.node, level |-> BrTop.level]}
    /\ brPrinted' = brPrinted \cup {[node |-> BrTop.node, level |-> BrTop.level]}
    /\ brStack' = BrSetTop([BrTop EXCEPT !.pc = "loop", !.refs = brSpace[BrTop.node],
                                         !.idx = 1])
    /\ UNCHANGED <<brMaxLevel, brSpace, brEarlyReturns, brFailures, brFailed>>
    /\ UNCHANGED BrOthers

\* The ways a browse request fails: the result holds a bad status (line 90),
\* or the request throws (line 95).
BrFailureKinds == {"status", "exception"}

\* A failure that leaves every call in progress, up to main.
BrAfterFailure_Unwind(stack) == <<>>

\* lines 90-98: the else branch and the catch block are inside the call; it
\* prints the failure and returns to its caller.
BrAfterFailure(stack) == SubSeq(stack, 1, Len(stack) - 1)

\* lines 60, 90-98: services::browse returns a bad status or throws; the
\* failure is printed and the call returns.
BrBrowseFail ==
    /\ brStack # <<>>
    /\ BrTop.pc = "browse"
    /\ brFailures < MaxBrowseFailures
    /\ brFailures' = brFailures + 1
    /\ \E how \in BrFailureKinds :
          brFailed' = brFailed \cup
              {[node |-> BrTop.node, level |-> BrTop.level, how |-> how]}
    /\ brBrowsed' = brBrowsed \cup {[node |-> BrTop.node, level |-> BrTop.level]}
    /\ brPrinted' = brPrinted \cup {[node |-> BrTop.node, level |-> BrTop.level]}
    /\ brStack' = BrAfterFailure(brStack)
    /\ UNCHANGED <<brMaxLevel, brSpace, brEarlyReturns>>
    /\ UNCHANGED BrOthers

\* A recursive call that passes its own level on.
BrChildLevel_Same(level) == level

\* line 88: the recursive call is made with level + 1.
BrChildLevel(level) == level + 1

\* lines 70-89: the next reference is printed and browsed recursively one
\* level deeper; after the last one the call returns.
BrLoop ==
    /\ brStack # <<>>
    /\ BrTop.pc = "loop"
    /\ IF BrTop.idx <= Len(BrTop.refs)
       THEN /\ brStack' = Append(BrSetTop([BrTop EXCEPT !.idx = @ + 1]),
                                 BrFrame(BrTop.refs[BrTop.idx], BrChildLevel(BrTop.level)))
            /\ brPrinted' = brPrinted \cup {[node |-> BrTop.node, level |-> BrTop.level]}
       ELSE /\ brStack' = BrPop
            /\ UNCHANGED brPrinted
    /\ UNCHANGED <<brMaxLevel, brSpace, brBrowsed, brEarlyReturns, brFailures,
                   brFailed>>
    /\ UNCHANGED BrOthers

\* No call of browseNodeRecursively is in progress.
BrIdle ==
    /\ brStack = <<>>
    /\ brMaxLevel = 0
    /\ brSpace = BrTreeSpace
    /\ brBrowsed = {}
    /\ brPrinted = {}
    /\ brEarlyReturns = {}
    /\ brFailures = 0
    /\ brFailed = {}

\* A call browseNodeRecursively(client, node, level, maxLevel) is about to
\* run on one of the address spaces.
BrInit ==
    /\ \E node \in BrNodes, level \in 0..MaxLevel :
          brStack = <<BrFrame(node, level)>>
    /\ brMaxLevel \in 0..MaxLevel
    /\ brSpace \in BrAddressSpaces
    /\ brBrowsed = {}
    /\ brPrinted = {}
    /\ brEarlyReturns = {}
    /\ brFailures = 0
    /\ brFailed = {}

BrNext ==
    \/ BrEntry
    \/ BrBrowseOk
    \/ BrBrowseFail
    \/ BrLoop

(***************************************************************************)
(* client_browse: main                                                     *)
(***************************************************************************)

\* lines 175-192: the calls of browseNodeRecursively main makes, each from
\* level 0, and the position main moves to when the call has returned.
BmCalls ==
    [demo1 |-> [node |-> "ObjectsFolder", maxLevel |-> 2, next |-> "demo2"],
     demo2 |-> [node |-> "Server", maxLevel |-> 2, next |-> "demo3a"],
     demo4 |-> [node |-> "Server_ServerStatus", maxLevel |-> 1, next |-> "demo5"]]

\* lines 185-188: the calls of browseSpecificNodeClass.
BmSpecificCalls ==
    [demo3a |-> [nodeClass |-> "Variable", next |-> "demo3b"],
     demo3b |-> [nodeClass |-> "Object", next |-> "demo4"]]

BmAllDemos == {"demo1", "demo2", "demo3a", "demo3b", "demo4", "demo5"}

\* How a single request of a demonstration ends.
BmOutcomes == {"ok"} \cup BrFailureKinds

\* line 171: connect succeeds.
BmConnectOk ==
    /\ bmPc = "connect"
    /\ bmConnection' = "connected"
    /\ bmPc' = "demo1"
    /\ UNCHANGED <<bmExit, bmDemos>>
    /\ UNCHANGED brVars
    /\ UNCHANGED BmOthers

\* lines 171, 213-216: connect throws; main prints the error and returns 1.
BmConnectFail ==
    /\ bmPc = "connect"
    /\ bmConnection' = "failed"
    /\ bmExit' = 1
    /\ bmPc' = "done"
    /\ UNCHANGED bmDemos
    /\ UNCHANGED brVars
    /\ UNCHANGED BmOthers

\* lines 176, 180, 192: main calls browseNodeRecursively.
BmCall(d) ==
    /\ bmPc = d
    /\ bmPc' = "in_" \o d
    /\ brStack' = <<BrFrame(BmCalls[d].node, 0)>>
    /\ brMaxLevel' = BmCalls[d].maxLevel
    /\ brBrowsed' = {}
    /\ brPrinted' = {}
    /\ brEarlyReturns' = {}
    /\ brFailed' = {}
    /\ UNCHANGED <<brSpace, brFailures>>
    /\ UNCHANGED <<bmExit, bmDemos, bmConnection>>
    /\ UNCHANGED BmOthers

\* lines 176, 180, 192: the call has returned; main goes on with the next
\* demonstration.
BmReturn(d) ==
    /\ bmPc = "in_" \o d
    /\ brStack = <<>>
    /\ bmDemos' = bmDemos \cup {<<d, IF brFailed = {} THEN "ok" ELSE "failed">>}
    /\ bmPc' = BmCalls[d].next
    /\ UNCHANGED <<bmExit, bmConnection>>
    /\ UNCHANGED brVars
    /\ UNCHANGED BmOthers

\* lines 111-159: browseSpecificNodeClass issues one browse request and
\* prints the references, the bad status or the exception; it returns in
\* each case.
BmBrowseSpecific(d, outcome) ==
    /\ bmPc = d
    /\ bmDemos' = bmDemos \cup {<<d, outcome>>}
    /\ bmPc' = BmSpecificCalls[d].next
    /\ UNCHANGED <<bmExit, bmConnection>>
    /\ UNCHANGED brVars
    /\ UNCHANGED BmOthers

\* lines 198-211: the server time is read inside a try block of its own: a
\* value is printed, a bad status is passed over, an exception is printed.
BmReadTime(outcome) ==
    /\ bmPc = "demo5"
    /\ bmDemos' = bmDemos \cup {<<"demo5", outcome>>}
    /\ bmPc' = "disconnect"
    /\ UNCHANGED <<bmExit, bmConnection>>
    /\ UNCHANGED brVars
    /\ UNCHANGED BmOthers

\* lines 218-224: main disconnects and returns 0.
BmDisconnect ==
    /\ bmPc = "disconnect"
    /\ bmConnection' = "disconnected"
    /\ bmExit' = 0
    /\ bmPc' = "done"
    /\ UNCHANGED bmDemos
    /\ UNCHANGED brVars
    /\ UNCHANGED BmOthers

\* main is about to connect.
BmInit ==
    /\ bmPc = "connect"
    /\ bmExit = -1
    /\ bmDemos = {}
    /\ bmConnection = "none"

BmMain ==
    \/ BmConnectOk
    \/ BmConnectFail
    \/ \E d \in DOMAIN BmCalls : BmCall(d)
    \/ \E d \in DOMAIN BmCalls : BmReturn(d)
    \/ \E d \in DOMAIN BmSpecificCalls, outcome \in BmOutcomes : BmBrowseSpecific(d, outcome)
    \/ \E outcome \in BmOutcomes : BmReadTime(outcome)
    \/ BmDisconnect

BmNext ==
    \/ BmMain
    \/ BrNext

(***************************************************************************)
(* client_connect                                                          *)
(***************************************************************************)

\* Largest number of command-line arguments after the program name.
MaxArgs == 3

CcUrl == "opc.tcp://localhost:4840"
\* What an argument may be: an option, an option's value or the server URL.
CcTokens == {"-h", "--help", "--username", "--password", "alice", CcUrl}

RECURSIVE CcSeqs(_)
\* All argument lists of length n.
CcSeqs(n) ==
    IF n = 0 THEN {<<>>}
    ELSE {Append(a, t) : a \in CcSeqs(n - 1), t \in CcTokens}

CcArgLists == UNION {CcSeqs(n) : n \in 0..MaxArgs}

\* CliParser::nargs: the number of elements of argv, the program name included.
nargs(argv) == Len(argv)

\* CliParser::hasFlag: whether flag is an element of argv.
hasFlag(argv, flag) == \E i \in 1..Len(argv) : argv[i] = flag

CcNoValue == [present |-> FALSE, value |-> ""]

\* CliParser::value: the element after the first occurrence of flag, if any.
value(argv, flag) ==
    IF \E i \in 1..Len(argv) - 1 : argv[i] = flag /\ \A j \in 1..(i - 1) : argv[j] # flag
    THEN LET i == CHOOSE i \in 1..Len(argv) - 1 :
                      argv[i] = flag /\ \A j \in 1..(i - 1) : argv[j] # flag
         IN [present |-> TRUE, value |-> argv[i + 1]]
    ELSE CcNoValue

\* line 34: the argument check.
CcArgumentError(argv) ==
    nargs(argv) < 2 \/ hasFlag(argv, "-h") \/ hasFlag(argv, "--help")

\* line 50: the server URL is the last argument.
CcServerUrl(argv) == argv[nargs(argv)]

\* lines 71-79: the identity token set on the client configuration, with an
\* empty password when none is given; anonymous without --username.
CcUserIdentityToken(argv) ==
    IF value(argv, "--username").present
    THEN [user |-> value(argv, "--username").value,
          password |-> IF value(argv, "--password").present
                       THEN value(argv, "--password").value ELSE ""]
    ELSE [user |-> "", password |-> ""]

\* The process is started with a command line.
CcExec(args) ==
    /\ ccPc = "exec"
    /\ ccArgv' = <<"client_connect">> \o args
    /\ ccPc' = "args"
    /\ UNCHANGED <<ccIdentity, ccLog, ccExit>>
    /\ UNCHANGED CcOthers

\* lines 32-46: with an argument error main prints the usage and returns 2.
CcCheckArgs ==
    /\ ccPc = "args"
    /\ IF CcArgumentError(ccArgv)
       THEN /\ ccExit' = 2
            /\ ccPc' = "done"
       ELSE /\ ccPc' = "configure"
            /\ UNCHANGED ccExit
    /\ UNCHANGED <<ccArgv, ccIdentity, ccLog>>
    /\ UNCHANGED CcOthers

\* lines 49-79: the client is created and its identity token configured.
CcConfigure ==
    /\ ccPc = "configure"
    /\ ccIdentity' = CcUserIdentityToken(ccArgv)
    /\ ccPc' = "connect"
    /\ UNCHANGED <<ccArgv, ccLog, ccExit>>
    /\ UNCHANGED CcOthers

\* lines 86-88: connect succeeds; that takes a server at the URL given.
CcConnectOk ==
    /\ ccPc = "connect"
    /\ CcServerUrl(ccArgv) = CcUrl
    /\ ccLog' = Append(ccLog, "connect_ok")
    /\ ccPc' = "read"
    /\ UNCHANGED <<ccArgv, ccIdentity, ccExit>>
    /\ UNCHANGED CcOthers

\* lines 86-92: connect throws; main prints the error and returns 1.
CcConnectFail ==
    /\ ccPc = "connect"
    /\ ccLog' = Append(ccLog, "connect_fail")
    /\ ccExit' = 1
    /\ ccPc' = "done"
    /\ UNCHANGED <<ccArgv, ccIdentity>>
    /\ UNCHANGED CcOthers

\* lines 101-110: the read of the server time returns a value; it is printed.
CcReadOk ==
    /\ ccPc = "read"
    /\ ccLog' = Append(ccLog, "read_ok")
    /\ ccPc' = "disconnect"
    /\ UNCHANGED <<ccArgv, ccIdentity, ccExit>>
    /\ UNCHANGED CcOthers

\* A failed read that ends the program with an error code.
CcReadFail_Return ==
    /\ ccPc = "read"
    /\ ccLog' = Append(ccLog, "read_fail")
    /\ ccExit' = 1
    /\ ccPc' = "done"
    /\ UNCHANGED <<ccArgv, ccIdentity>>
    /\ UNCHANGED CcOthers

\* lines 101, 111-113: the read returns a bad status; it is printed and main
\* goes on.
CcReadFail ==
    /\ ccPc = "read"
    /\ ccLog' = Append(ccLog, "read_fail")
    /\ ccPc' = "disconnect"
    /\ UNCHANGED <<ccArgv, ccIdentity, ccExit>>
    /\ UNCHANGED CcOthers

\* lines 118-121: main disconnects and returns 0.
CcDisconnect ==
    /\ ccPc = "disconnect"
    /\ ccLog' = Append(ccLog, "disconnect")
    /\ ccExit' = 0
    /\ ccPc' = "done"
    /\ UNCHANGED <<ccArgv, ccIdentity>>
    /\ UNCHANGED CcOthers

\* The process has not been started.
CcInit ==
    /\ ccArgv = <<>>
    /\ ccPc = "exec"
    /\ ccIdentity = [user |-> "", password |-> ""]
    /\ ccLog = <<>>
    /\ ccExit = -1

CcNext ==
    \/ \E args \in CcArgLists : CcExec(args)
    \/ CcCheckArgs
    \/ CcConfigure
    \/ CcConnectOk
    \/ CcConnectFail
    \/ CcReadOk
    \/ CcReadFail
    \/ CcDisconnect

(***************************************************************************)
(* server_datasource                                                       *)
(***************************************************************************)

\* Number of client requests the server is observed with.
MaxRequests == 3

\* line 140: dataSource.data = 42
InitialData == 42

\* Values a client writes to the node; the value of line 160 among them.
DsValues == {-1, 0, InitialData, 100}

StatusGood == "Good"
DsNone == "none"

\* opcua::Variant{data} for an int: a scalar Variant of type Int32.
VariantOfInt(data) == [type |-> "Int32", scalar |-> data]

\* Variant::to<int>() of an Int32 Variant: the scalar it holds.
VariantToInt(variant) == variant.scalar

\* A write that leaves the stored data as it is.
DataSource_write_Keep(data, dv) == [data |-> data, status |-> StatusGood]

\* lines 54-75: DataSource<int>::read puts the stored data into dv, sets the
\* source timestamp on request and returns Good; data is not assigned.
DataSource_read(data, timestamp) ==
    [data |-> data,
     dv |-> [value |-> VariantOfInt(data), hasSourceTimestamp |-> timestamp],
     status |-> StatusGood]

\* lines 89-103: DataSource<int>::write stores the int in dv and returns Good.
DataSource_write(data, dv) ==
    [data |-> VariantToInt(dv.value), status |-> StatusGood]

\* lines 137-146, 169: main sets the initial value, binds the data source to
\* the node and runs the server.
DsSetup ==
    /\ dsPc = "start"
    /\ dsData' = InitialData
    /\ dsPc' = "running"
    /\ UNCHANGED <<dsWritten, dsReply, dsRequests>>
    /\ UNCHANGED DsOthers

\* A client reads the node: the server calls read and returns its result.
DsClientRead(timestamp) ==
    /\ dsPc = "running"
    /\ dsRequests < MaxRequests
    /\ LET r == DataSource_read(dsData, timestamp)
       IN /\ dsData' = r.data
          /\ dsReply' = [op |-> "read", status |-> r.status,
                         value |-> VariantToInt(r.dv.value),
                         hasSourceTimestamp |-> r.dv.hasSourceTimestamp]
    /\ dsRequests' = dsRequests + 1
    /\ UNCHANGED <<dsPc, dsWritten>>
    /\ UNCHANGED DsOthers

\* A client writes an Int32 to the node (the server checks the value against
\* the node's data type, line 127, before it calls write).
DsClientWrite(v) ==
    /\ dsPc = "running"
    /\ dsRequests < MaxRequests
    /\ LET r == DataSource_write(dsData, [value |-> VariantOfInt(v)])
       IN /\ dsData' = r.data
          /\ dsReply' = [op |-> "write", status |-> r.status, value |-> v,
                         hasSourceTimestamp |-> FALSE]
    /\ dsWritten' = Append(dsWritten, v)
    /\ dsRequests' = dsRequests + 1
    /\ UNCHANGED dsPc
    /\ UNCHANGED DsOthers

\* main has not bound the data source yet.
DsInit ==
    /\ dsPc = "start"
    /\ dsData = 0
    /\ dsWritten = <<>>
    /\ dsReply = [op |-> DsNone, status |-> DsNone, value |-> 0,
                  hasSourceTimestamp |-> FALSE]
    /\ dsRequests = 0

DsNext ==
    \/ DsSetup
    \/ \E timestamp \in BOOLEAN : DsClientRead(timestamp)
    \/ \E v \in DsValues : DsClientWrite(v)

(***************************************************************************)
(* server_valuecallback                                                    *)
(***************************************************************************)

\* Largest reading of the clock.
MaxTime == 3

VcTimes == 0..MaxTime

\* opcua::Variant{timeNow}: a scalar Variant of type DateTime.
VariantOfDateTime(t) == [type |-> "DateTime", scalar |-> t]

\* Variant::scalar<opcua::DateTime>() of a scalar DateTime Variant.
VariantScalarDateTime(variant) == variant.scalar

\* An onRead that logs the old value only.
onRead_LogOnly(node, now) ==
    [node |-> node, timeOld |-> VariantScalarDateTime(node)]

\* lines 53-78: onRead takes the old time from the value it is given, takes
\* the current time and writes it to the node.
onRead(node, now) ==
    [node |-> VariantOfDateTime(now), timeOld |-> VariantScalarDateTime(node)]

\* lines 116-140, 170: main creates the node with the current time as its
\* value, binds the callback and runs the server.
VcSetup ==
    /\ vcPc = "start"
    /\ vcNode' = VariantOfDateTime(vcClock)
    /\ vcPc' = "running"
    /\ UNCHANGED <<vcClock, vcReply, vcCalls, vcRequests>>
    /\ UNCHANGED VcOthers

\* Time passes.
VcTick ==
    /\ vcClock < MaxTime
    /\ vcClock' = vcClock + 1
    /\ UNCHANGED <<vcPc, vcNode, vcReply, vcCalls, vcRequests>>
    /\ UNCHANGED VcOthers

\* A client reads the node: the server calls onRead with the stored value
\* and then returns the value the node holds after the callback.
VcClientRead ==
    /\ vcPc = "running"
    /\ vcRequests < MaxRequests
    /\ LET r == onRead(vcNode, vcClock)
       IN /\ vcNode' = r.node
          /\ vcReply' = [op |-> "read", value |-> VariantScalarDateTime(r.node),
                         before |-> r.timeOld, now |-> vcClock]
    /\ vcCalls' = [reads |-> vcCalls.reads + 1, onRead |-> vcCalls.onRead + 1]
    /\ vcRequests' = vcRequests + 1
    /\ UNCHANGED <<vcPc, vcClock>>
    /\ UNCHANGED VcOthers

\* lines 95-103: a client writes a DateTime to the node; onWrite does
\* nothing.  The server stores the value, or rejects the write when the
\* node's access level does not admit it.
VcClientWrite(t, accepted) ==
    /\ vcPc = "running"
    /\ vcRequests < MaxRequests
    /\ vcNode' = IF accepted THEN VariantOfDateTime(t) ELSE vcNode
    /\ vcReply' = [op |-> IF accepted THEN "write" ELSE "write_rejected",
                   value |-> t, before |-> VariantScalarDateTime(vcNode),
                   now |-> vcClock]
    /\ vcRequests' = vcRequests + 1
    /\ UNCHANGED <<vcPc, vcClock, vcCalls>>
    /\ UNCHANGED VcOthers

\* main has not created the node yet.
VcInit ==
    /\ vcPc = "start"
    /\ vcClock = 0
    /\ vcNode = VariantOfDateTime(0)
    /\ vcReply = [op |-> "none", value |-> 0, before |-> 0, now |-> 0]
    /\ vcCalls = [reads |-> 0, onRead |-> 0]
    /\ vcRequests = 0

VcNext ==
    \/ VcSetup
    \/ VcTick
    \/ VcClientRead
    \/ \E t \in VcTimes, accepted \in BOOLEAN : VcClientWrite(t, accepted)

(***************************************************************************)
(* client_eventfilter                                                      *)
(***************************************************************************)

\* line 74: opcua::LiteralOperand{200}
SeverityThreshold == 200

\* Event types of the server and the direct supertype of each; every event
\* type descends from BaseEventType.
EfSuperType ==
    [t \in {"BaseEventType", "AuditEventType"} |->
        IF t = "AuditEventType" THEN "BaseEventType" ELSE "none"]
EfEventTypes == DOMAIN EfSuperType

\* Severities the GenerateEvent method is called with (UInt16).
EfSeverities == {1, SeverityThreshold - 1, SeverityThreshold, 1000}

EfEvents == [type : EfEventTypes, severity : EfSeverities]

RECURSIVE EfIsOfType(_, _)
\* Whether type t is type base or one of its subtypes.
EfIsOfType(t, base) ==
    IF t = base THEN TRUE
    ELSE IF EfSuperType[t] = "none" THEN FALSE
    ELSE EfIsOfType(EfSuperType[t], base)

\* lines 53-59: OfType with the literal operand BaseEventType.
filterBaseEventType ==
    [op |-> "OfType", operands |-> <<[literal |-> "BaseEventType"]>>]

\* lines 64-76: LessThan with the Severity attribute and the literal 200.
filterLowSeverity ==
    [op |-> "LessThan",
     operands |-> <<[attribute |-> "Severity"], [literal |-> SeverityThreshold]>>]

\* operator!: a Not element over its operand.
EfNot(f) == [op |-> "Not", operands |-> <<f>>]

\* operator&&: an And element over its two operands.
EfAnd(f, g) == [op |-> "And", operands |-> <<f, g>>]

\* The two elements joined without the negation.
filterCombined_NoNot == EfAnd(filterBaseEventType, filterLowSeverity)

\* line 82: filterBaseEventType && !filterLowSeverity
filterCombined == EfAnd(filterBaseEventType, EfNot(filterLowSeverity))

\* The value of an operand of a comparison for an event.
EfOperand(o, event) ==
    IF "attribute" \in DOMAIN o THEN event.severity ELSE o.literal

\* The server's evaluation of a where clause for an event, operator by
\* operator.  The filters of this program nest three operators deep.
EfEvalLeaf(f, event) ==
    CASE f.op = "OfType"   -> EfIsOfType(event.type, f.operands[1].literal)
      [] f.op = "LessThan" -> EfOperand(f.operands[1], event) < EfOperand(f.operands[2], event)
      [] OTHER             -> FALSE
EfEvalInner(f, event) ==
    CASE f.op = "Not" -> ~EfEvalLeaf(f.operands[1], event)
      [] f.op = "And" -> EfEvalLeaf(f.operands[1], event) /\ EfEvalLeaf(f.operands[2], event)
      [] OTHER        -> EfEvalLeaf(f, event)
EfEval(f, event) ==
    CASE f.op = "Not" -> ~EfEvalInner(f.operands[1], event)
      [] f.op = "And" -> EfEvalInner(f.operands[1], event) /\ EfEvalInner(f.operands[2], event)
      [] OTHER        -> EfEvalInner(f, event)

EfNoFilter == [op |-> "none", operands |-> <<>>]

\* lines 46-150: the client connects, creates a subscription and subscribes
\* to the events of the Server object with the event filter.
EfSubscribeEvent ==
    /\ efPc = "start"
    /\ efFilter' = filterCombined
    /\ efPc' = "running"
    /\ UNCHANGED <<efLastEvent, efDelivered, efDropped>>
    /\ UNCHANGED EfOthers

\* The server generates an event while the client runs (line 173): the
\* server evaluates the where clause and, when it holds, the callback of
\* lines 118-149 runs with the selected fields.
EfGenerateEvent(event) ==
    /\ efPc = "running"
    /\ efLastEvent' = event
    /\ IF EfEval(efFilter, event)
       THEN /\ efDelivered' = efDelivered \cup {event}
            /\ UNCHANGED efDropped
       ELSE /\ efDropped' = efDropped \cup {event}
            /\ UNCHANGED efDelivered
    /\ UNCHANGED <<efPc, efFilter>>
    /\ UNCHANGED EfOthers

\* The client has not subscribed yet.
EfInit ==
    /\ efPc = "start"
    /\ efFilter = EfNoFilter
    /\ efLastEvent = [type |-> "none", severity |-> 0]
    /\ efDelivered = {}
    /\ efDropped = {}

EfNext ==
    \/ EfSubscribeEvent
    \/ \E event \in EfEvents : EfGenerateEvent(event)

(***************************************************************************)
(* typeconversion                                                          *)
(***************************************************************************)

\* UA_Byte is an unsigned integer of 8 bits; std::byte is an enumeration
\* over unsigned char, modelled as a record holding its bits.
UA_Bytes == 0..255
StdBytes == [bits : 0..255]

\* The conversion to UA_Byte done with seven bits only.
toNative_SevenBits(src) == src.bits % 128

\* lines 48-50: std::byte{src}
fromNative(src) == [bits |-> src % 256]

\* lines 61-63: std::to_integer<UA_Byte>(src)
toNative(src) == src.bits % 256

TcEmptyVariant == [type |-> "empty", scalar |-> 0]

\* Variant::assign / operator= of a std::byte: the Variant holds the native
\* value made by toNative.
TcVariantAssign(b) == [type |-> "Byte", scalar |-> toNative(b)]

\* Variant::scalar<UA_Byte>(): the native value held.
TcVariantScalar(variant) == variant.scalar

\* Variant::to<std::byte>(): the native value held, through fromNative.
TcVariantTo(variant) == fromNative(variant.scalar)

\* lines 80, 84: a std::byte is assigned to the Variant (main uses 11; the
\* model takes every std::byte).
TcAssign(b) ==
    /\ tcPc = "assign"
    /\ tcSource' = b
    /\ tcVariant' = TcVariantAssign(b)
    /\ tcPc' = "read_native"
    /\ UNCHANGED <<tcValueNative, tcValue>>
    /\ UNCHANGED TcOthers

\* line 93: the Variant is read as UA_Byte.
TcReadNative ==
    /\ tcPc = "read_native"
    /\ tcValueNative' = TcVariantScalar(tcVariant)
    /\ tcPc' = "read_byte"
    /\ UNCHANGED <<tcSource, tcVariant, tcValue>>
    /\ UNCHANGED TcOthers

\* line 108: the Variant is read as std::byte.
TcReadByte ==
    /\ tcPc = "read_byte"
    /\ tcValue' = TcVariantTo(tcVariant)
    /\ tcPc' = "done"
    /\ UNCHANGED <<tcSource, tcVariant, tcValueNative>>
    /\ UNCHANGED TcOthers

\* line 73: the Variant is empty.
TcInit ==
    /\ tcPc = "assign"
    /\ tcSource = [bits |-> 0]
    /\ tcVariant = TcEmptyVariant
    /\ tcValueNative = 0
    /\ tcValue = [bits |-> 0]

TcNext ==
    \/ \E b \in StdBytes : TcAssign(b)
    \/ TcReadNative
    \/ TcReadByte

(***************************************************************************)
(* Specifications                                                          *)
(***************************************************************************)

Init ==
    /\ AcInit
    /\ SubInit
    /\ MaInit
    /\ CaInit
    /\ BrIdle
    /\ BmInit
    /\ CcInit
    /\ DsInit
    /\ VcInit
    /\ EfInit
    /\ TcInit

\* The initial states for the check of browseNodeRecursively: its arguments
\* and the address space are drawn from the bounded sets of BrInit.
InitBrowse ==
    /\ AcInit
    /\ SubInit
    /\ MaInit
    /\ CaInit
    /\ BrInit
    /\ BmInit
    /\ CcInit
    /\ DsInit
    /\ VcInit
    /\ EfInit
    /\ TcInit

SpecAccessControl == Init /\ [][AcNext]_vars

SpecSubscription == Init /\ [][SubNext]_vars

\* main runs on: every enabled step of main is eventually taken.  Signals
\* and connection errors are up to the environment.
SpecSubscriptionFair == SpecSubscription /\ WF_vars(SubMain)

SpecAsync == Init /\ [][CaNext]_vars

SpecBrowse == InitBrowse /\ [][BrNext]_vars

\* The initial states of main of client_browse: the server exposes one of
\* the address spaces.
InitBrowseMain ==
    /\ AcInit
    /\ SubInit
    /\ MaInit
    /\ CaInit
    /\ BmInit
    /\ brStack = <<>>
    /\ brMaxLevel = 0
    /\ brSpace \in BrAddressSpaces
    /\ brBrowsed = {}
    /\ brPrinted = {}
    /\ brEarlyReturns = {}
    /\ brFailures = 0
    /\ brFailed = {}
    /\ CcInit
    /\ DsInit
    /\ VcInit
    /\ EfInit
    /\ TcInit

SpecBrowseMain == InitBrowseMain /\ [][BmNext]_vars

\* The call runs on: it is a sequential program, its next step is taken.
SpecBrowseFair == SpecBrowse /\ WF_vars(BrNext)

SpecConnect == Init /\ [][CcNext]_vars

SpecDataSource == Init /\ [][DsNext]_vars

SpecValueCallback == Init /\ [][VcNext]_vars

SpecEventFilter == Init /\ [][EfNext]_vars

SpecTypeConversion == Init /\ [][TcNext]_vars

SpecMethodAsync == Init /\ [][MaNext]_vars

\* Both threads are scheduled, and the event loop completes every pending
\* request in the end, by its response or by the request timeout.
SpecMethodAsyncFair ==
    /\ SpecMethodAsync
    /\ WF_vars(MaMain)
    /\ WF_vars(MaThreadEnterRun)
    /\ WF_vars(MaLoopTest)
    /\ WF_vars(MaLoopIdle)
    /\ \A r \in MaCalls : SF_vars(MaLoopComplete(r))

(***************************************************************************)
(* Claims about client_subscription                                        *)
(***************************************************************************)

C4_SignalsShutDownGracefully ==
    subLastSignal \in {"SIGINT", "SIGTERM"} =>
        /\ ~subIsRunning
        /\ subPc # "killed"
        /\ subPc = "done" => subExit = [disconnected |-> TRUE, code |-> 0]

\* The case of C4: a signal arrived while main was in the inner loop with an
\* active session.
C4_Witness ==
    /\ subLastSignal = "SIGTERM"
    /\ subSession.active

\* C5: every session activation runs the callback, and an active session
\* holds exactly one subscription (publishing interval 1000 ms, publishing
\* enabled) with exactly one data-change monitored item on
\* Server_ServerStatus_CurrentTime (sampling interval 100 ms, Reporting).
C5_ActivationBuildsSubscription ==
    /\ subCallbackRuns = subActivations
    /\ subSession.active =>
          \E id \in ServerIds, monId \in ServerIds :
             /\ subSession.subs =
                  {[id |-> id, publishingInterval |-> 1000, publishingEnabled |-> TRUE]}
             /\ subSession.items =
                  {[subId |-> id, monId |-> monId,
                    node |-> "Server_ServerStatus_CurrentTime", attribute |-> "Value",
                    samplingInterval |-> 100, mode |-> "Reporting"]}

\* The case of C5: a session activated after a reconnect.
C5_Witness ==
    /\ subSession.active
    /\ subActivations >= 2
    /\ subErrors >= 1

(***************************************************************************)
(* Claims about client_method_async                                        *)
(***************************************************************************)

\* C6: when client.stop() has been called, both asynchronous Greet calls have
\* completed (the future is ready and the callback has been invoked), and
\* once clientThread.join() has returned no asynchronous call is pending.
C6_CallsCompletedBeforeStop ==
    /\ maPc \in {"join", "done"} => (MaCompleted("future") /\ MaCompleted("callback"))
    /\ maPc = "done" => \A r \in MaCalls : maReq[r].state \notin {"sent", "answered"}

\* The case of C6: main has called stop() after issuing both calls.
C6_Witness ==
    /\ maPc = "join"
    /\ maReq["callback"].state # "none"

\* C7: the program always terminates: the main thread leaves future.wait(),
\* after client.stop() the client thread leaves run(), clientThread.join()
\* returns, and main returns only after the client thread has finished.
C7_AlwaysTerminates ==
    /\ <>(maPc \in {"done", "aborted"})
    /\ (maPc = "future_wait") ~> (maPc # "future_wait")
    /\ (maPc = "join") ~> (maPc \in {"done", "aborted"})
    /\ [](maPc = "done" => maThread = "exited")

\* The case of C7: main has returned after stop() and join().
C7_Witness ==
    /\ maPc = "done"
    /\ maThread = "exited"
    /\ ~maRunning

(***************************************************************************)
(* Claims about client_async                                               *)
(***************************************************************************)

\* C8: no request is issued before the first session activation; the read,
\* browse and create-subscription requests are issued with the session
\* active; every create-monitored-item request was issued after a
\* create-subscription response had arrived and carries that response's
\* subscription id.
C8_RequestsFollowActivationAndResponse ==
    /\ caActivations = 0 => caSent = {}
    /\ \A s \in caSent :
          s.kind \in onSessionActivated_requests => s.sessionActive
    /\ \A s \in caSent :
          s.kind = "createMonitoredItem" =>
             \E r \in caReceived : /\ r.kind = "createSubscription"
                                    /\ r.subscriptionId = s.subscriptionId

\* The case of C8: the monitored item has been requested on the id of a
\* created subscription, in a session activated after a reconnect.
C8_Witness ==
    /\ caActivations >= 2
    /\ \E s \in caSent : s.kind = "createMonitoredItem" /\ s.subscriptionId = 2

\* C9: when the create-subscription response carries a bad service result, no
\* create-monitored-item request is sent.
C9_NoMonitoredItemAfterBadResponse ==
    \A r \in caReceived :
        (r.kind = "createSubscription" /\ r.serviceResult # "Good") =>
            ~ \E s \in caSent : s.kind = "createMonitoredItem" /\ s.sessionActive

\* The case of C9: a create-subscription response with a bad service result
\* has arrived on an active session.
C9_Witness ==
    /\ caState = "session_active"
    /\ \E r \in caReceived :
          r.kind = "createSubscription" /\ r.serviceResult = "BadTooManySubscriptions"

(***************************************************************************)
(* Claims about client_browse                                              *)
(***************************************************************************)

\* C10: browseNodeRecursively issues browse requests only at levels below
\* maxLevel, and a call entered with level >= maxLevel returns without
\* browsing and without printing; every call that returned at once had
\* level >= maxLevel.
C10_NoBrowseAtMaxLevel ==
    /\ \A b \in brBrowsed : b.level >= 0 /\ b.level < brMaxLevel
    /\ \A p \in brPrinted : p.level < brMaxLevel
    /\ \A e \in brEarlyReturns : e.level >= brMaxLevel /\ e \notin brBrowsed
                                  /\ e \notin brPrinted

\* The case of C10: a run that browsed down to level maxLevel - 1 and whose
\* recursive call at level maxLevel returned at once.
C10_Witness ==
    /\ brStack = <<>>
    /\ brMaxLevel >= 2
    /\ \E b \in brBrowsed : b.level = brMaxLevel - 1
    /\ \E e \in brEarlyReturns : e.level = brMaxLevel

\* C11: every call of browseNodeRecursively returns, on the address space
\* with cycles as well: the recursion is never deeper than the levels left
\* below maxLevel, plus the one call that returns at once.
C11_BrowseTerminates ==
    /\ <>(brStack = <<>>)
    /\ [](brStack # <<>> =>
            Len(brStack) <= 1 + (IF brMaxLevel > brStack[1].level
                                 THEN brMaxLevel - brStack[1].level ELSE 0))

\* The case of C11: a call has returned after following a cycle, having
\* browsed the same node at two levels.
C11_Witness ==
    /\ brStack = <<>>
    /\ brSpace = BrCyclicSpace
    /\ \E a \in brBrowsed, b \in brBrowsed : a.node = b.node /\ a.level < b.level

(***************************************************************************)
(* Claims about main of client_browse                                      *)
(***************************************************************************)

\* The references of every node whose browse succeeded in the call that has
\* just returned were all browsed in turn, one level deeper.
BmSiblingsBrowsed ==
    \A b \in brBrowsed :
        (\A f \in brFailed : ~(f.node = b.node /\ f.level = b.level)) =>
            \A i \in 1..Len(brSpace[b.node]) :
                [node |-> brSpace[b.node][i], level |-> b.level + 1]
                    \in brBrowsed \cup brEarlyReturns

\* C18: a failed browse, by a bad status or by an exception, ends only the
\* call it happened in: the remaining references of the parent node are
\* still browsed and the later demonstrations still run; main returns 1
\* exactly when connect failed, and otherwise it runs every demonstration,
\* disconnects and returns 0.
C18_BrowseFailureHandledLocally ==
    /\ brStack = <<>> => BmSiblingsBrowsed
    /\ bmPc = "done" <=> bmExit # -1
    /\ bmPc = "done" =>
          /\ bmExit \in {0, 1}
          /\ bmExit = 1 <=> bmConnection = "failed"
          /\ bmExit = 0 <=> bmConnection = "disconnected"
          /\ bmExit = 0 => {d[1] : d \in bmDemos} = BmAllDemos
          /\ bmExit = 1 => bmDemos = {}

\* The case of C18: main has returned 0 after a browse request failed in
\* the first demonstration and another one threw in the third.
C18_Witness ==
    /\ bmPc = "done"
    /\ bmExit = 0
    /\ <<"demo1", "failed">> \in bmDemos
    /\ <<"demo3a", "exception">> \in bmDemos
    /\ {d[1] : d \in bmDemos} = BmAllDemos

(***************************************************************************)
(* Claims about isRunning of client_subscription                           *)
(***************************************************************************)

\* isRunning changes only from true to false, and only in a step in which
\* signalHandler runs; so once false it stays false.
SubIsRunningOnlyFalls ==
    [][subIsRunning' # subIsRunning =>
          /\ subIsRunning /\ ~subIsRunning'
          /\ \E sig \in Signals :
                /\ SignalDisposition(sig) = "signalHandler"
                /\ subLastSignal' = sig
                /\ subUsers'["isRunning"] = subUsers["isRunning"] \cup {"signalHandler"}]_vars

CcLogged(e) == \E i \in 1..Len(ccLog) : ccLog[i] = e

\* C12: main returns 2 exactly on an argument error, and then without
\* connecting; it returns 1 exactly when connect failed; and it returns 0
\* only when it connected, read the server time and disconnected.
C12_ExitCodes ==
    ccPc = "done" =>
        /\ ccExit \in {0, 1, 2}
        /\ ccExit = 2 <=> CcArgumentError(ccArgv)
        /\ ccExit = 2 => ccLog = <<>>
        /\ ccExit = 1 <=> CcLogged("connect_fail")
        /\ ccExit = 0 => ccLog = <<"connect_ok", "read_ok", "disconnect">>

\* The case C12 fails in: main has returned 0 although the read failed.
C12_Witness ==
    /\ ccPc = "done"
    /\ ccExit = 0
    /\ ccLog = <<"connect_ok", "read_fail", "disconnect">>

\* C13: when main has returned after a successful connect it has called
\* disconnect, whether the read succeeded or failed; and every disconnect
\* comes after a successful connect.
C13_DisconnectFollowsConnect ==
    /\ (ccPc = "done" /\ CcLogged("connect_ok")) => ccLog[Len(ccLog)] = "disconnect"
    /\ \A i \in 1..Len(ccLog) :
          ccLog[i] = "disconnect" => \E j \in 1..(i - 1) : ccLog[j] = "connect_ok"

\* The case of C13: main has returned after the read failed, and has
\* disconnected.
C13_Witness ==
    /\ ccPc = "done"
    /\ CcLogged("connect_ok")
    /\ CcLogged("read_fail")
    /\ CcLogged("disconnect")
    /\ ccIdentity.user = "alice"

(***************************************************************************)
(* Claims about server_datasource                                          *)
(***************************************************************************)

\* C14: a read of the node returns the value of the most recent write, and
\* 42 when nothing has been written; a read does not change the stored
\* value; every read and every write returns Good.
C14_ReadReturnsLastWrite ==
    /\ [](dsReply.op = "read" =>
             dsReply.value = IF dsWritten = <<>> THEN 42
                             ELSE dsWritten[Len(dsWritten)])
    /\ [](dsReply.op # DsNone => dsReply.status = StatusGood)
    /\ [][(dsRequests' # dsRequests /\ dsReply'.op = "read") => dsData' = dsData]_vars

\* The case of C14: a read has returned the value written last, after
\* another value had been written before it.
C14_Witness ==
    /\ dsReply.op = "read"
    /\ dsWritten = <<-1, 100>>
    /\ dsReply.value = 100

(***************************************************************************)
(* Claims about server_valuecallback                                       *)
(***************************************************************************)

\* C15: every client read of CurrentTime invokes onRead, which stores the
\* current time in the node, so that the client receives the time of its
\* read whatever the node held before, a value written by a client
\* included; the node keeps that time until the next write.
C15_ReadReturnsCurrentTime ==
    /\ vcCalls.reads = vcCalls.onRead
    /\ vcReply.op = "read" =>
          /\ vcReply.value = vcReply.now
          /\ vcNode = VariantOfDateTime(vcReply.now)

\* The case of C15: a client has written a time later than the current one
\* (only a write puts such a value into the node), and the next read has
\* returned the current time instead.
C15_Witness ==
    /\ vcReply.op = "read"
    /\ vcReply.before = 3
    /\ vcReply.now = 2
    /\ vcReply.value = 2

(***************************************************************************)
(* Claims about client_eventfilter                                         *)
(***************************************************************************)

\* C16: the callback is invoked with an event exactly when the event is of
\* BaseEventType and its severity is at least 200: an event of severity 200
\* is delivered, one of severity 199 is held back.
C16_FilterPassesHighSeverity ==
    /\ \A e \in efDelivered :
          EfIsOfType(e.type, "BaseEventType") /\ e.severity >= 200
    /\ \A e \in efDropped :
          ~(EfIsOfType(e.type, "BaseEventType") /\ e.severity >= 200)
    /\ \A e \in efDelivered \cup efDropped :
          /\ e.severity = 200 => e \in efDelivered
          /\ e.severity = 199 => e \in efDropped

\* The case of C16: an event of severity 200 has been delivered and one of
\* severity 199 has been held back.
C16_Witness ==
    /\ [type |-> "BaseEventType", severity |-> 200] \in efDelivered
    /\ [type |-> "BaseEventType", severity |-> 199] \in efDropped
    /\ efLastEvent.severity = 1000

(***************************************************************************)
(* Claims about typeconversion                                             *)
(***************************************************************************)

\* C17: the conversions lose nothing in either direction,
\* fromNative(toNative(b)) = b for every std::byte b and
\* toNative(fromNative(u)) = u for every UA_Byte u; so a std::byte assigned
\* to a Variant is read back with the same value as UA_Byte and as
\* std::byte.
C17_ByteRoundTrip ==
    /\ \A b \in StdBytes : fromNative(toNative(b)) = b
    /\ \A u \in UA_Bytes : toNative(fromNative(u)) = u
    /\ tcPc \in {"read_byte", "done"} => tcValueNative = tcSource.bits
    /\ tcPc = "done" => tcValue = tcSource

\* The case of C17: a std::byte with its highest bit set has been assigned
\* and read back both ways.
C17_Witness ==
    /\ tcPc = "done"
    /\ tcSource = [bits |-> 255]
    /\ tcValueNative = 255
    /\ tcValue = [bits |-> 255]

====
